---- MODULE Spec2Model ----
(***************************************************************************)
(* Contract-ownership verification of the developer console: the           *)
(* ContractsRoute controllers (createContract, startVerification,          *)
(* completeVerification, deleteContract) over the contracts, challenges    *)
(* and transactions tables of a relational store at read-committed         *)
(* isolation.  Every request is one process; a process takes one database  *)
(* statement per step, so requests interleave between statements.          *)
(***************************************************************************)
EXTENDS Integers, FiniteSets, Sequences, TLC

(* ------------------------------------------------------------------ *)
(* Bounds of the model                                                  *)
(* ------------------------------------------------------------------ *)

\* Rows the contracts table may hold.
MaxContracts == 2

\* Rows the challenges table may hold.
MaxChallenges == 2

\* Requests served in one behaviour (the rejected ones apart).
MaxRequests == 4

\* Concurrent requests (one logical task per request).
Procs == {"r1", "r2"}

(* ------------------------------------------------------------------ *)
(* Values                                                               *)
(* ------------------------------------------------------------------ *)

Entities == {"e1", "e2"}

\* The one chain the client map supports, and one it does not.
SupportedChain == 10

UnsupportedChain == 99

NOT_VERIFIED == "not_verified"

VERIFIED == "verified"

DELETED == "deleted"

PENDING == "pending"

COMPLETED == "completed"

EXPIRED == "expired"

\* An address is an account (a) written in some letter case (c).
Casings == {"sum", "lower"}

Addr(a, c) == [a |-> a, c |-> c]

\* viem getAddress: the checksummed form, whatever the input casing.
getAddress(x) == [a |-> x.a, c |-> "sum"]

\* addressEqualityCheck of @/utils: equality of the checksummed forms.
addressEqualityCheck(x, y) == getAddress(x) = getAddress(y)

NoAddr == Addr("none", "sum")

Deployers == {"D1", "D2"}

ContractAccounts == {"K1", "K2"}

(* ------------------------------------------------------------------ *)
(* The chain: what the RPC client returns for each transaction hash     *)
(* ------------------------------------------------------------------ *)

TxHashes == {"h1", "h2", "h3", "h4", "h5", "h6"}

\* receipt.from, receipt.contractAddress (NoAddr when absent) and the calls
\* of the transaction's trace.  RPC answers are lower-case.
ChainTx ==
    [h1 |-> [from |-> Addr("D1", "lower"), contractAddress |-> Addr("K1", "lower"),
             calls |-> << >>],
     h2 |-> [from |-> Addr("D1", "lower"), contractAddress |-> Addr("K2", "lower"),
             calls |-> << >>],
     h3 |-> [from |-> Addr("D2", "lower"), contractAddress |-> NoAddr,
             calls |-> << [type |-> "CREATE2", to |-> Addr("K1", "lower")] >>],
     h4 |-> [from |-> Addr("D2", "lower"), contractAddress |-> NoAddr,
             calls |-> << [type |-> "CALL", to |-> Addr("K2", "lower")] >>],
     h5 |-> [from |-> Addr("D2", "lower"), contractAddress |-> NoAddr,
             calls |-> << [type |-> "CREATE2", to |-> Addr("K1", "lower")],
                          [type |-> "CREATE2", to |-> Addr("K2", "lower")] >>],
     h6 |-> [from |-> Addr("D2", "lower"), contractAddress |-> NoAddr,
             calls |-> << >>]]

\* Which RPC call of createContract fails, if any.
RpcFailures == {"none", "getTransaction", "getTransactionReceipt", "getBlock",
                "traceTransaction"}

\* A variant of the resolution below that takes the target of a single internal
\* call of any type.
txContractAddressOfAnySingleCall(h) ==
    LET receipt == ChainTx[h]
    IN  IF receipt.contractAddress # NoAddr
        THEN receipt.contractAddress
        ELSE IF Len(receipt.calls) = 1
             THEN receipt.calls[1].to
             ELSE NoAddr

\* createContract lines 194-223: the created-contract address.
txContractAddress(h) ==
    LET receipt == ChainTx[h]
    IN  IF receipt.contractAddress # NoAddr
        THEN receipt.contractAddress
        ELSE IF Len(receipt.calls) = 1 /\ receipt.calls[1].type = "CREATE2"
             THEN receipt.calls[1].to
             ELSE NoAddr

(* ------------------------------------------------------------------ *)
(* Requests                                                             *)
(* ------------------------------------------------------------------ *)

\* generateChallenge: the message to sign, derived from the address alone.
generateChallenge(address) == <<"sign to verify ownership of", address>>

\* A signature is who signed which message.
Signatures == {[signer |-> d, message |-> generateChallenge(Addr(d, "sum"))] :
                  d \in Deployers}

\* A createContract input.
CreateInput(e, h, k, d, c, ch, a, f) ==
    [op |-> "createContract", entityId |-> e, contractAddress |-> Addr(k, c),
     deploymentTxHash |-> h, deployerAddress |-> Addr(d, c), chainId |-> ch,
     appId |-> a, rpcFailure |-> f]

\* Registrations that pass the checks before the transaction: the deployments as
\* they are on the chain.  Entity e1 has two apps and entity e2 one.
GoodCreateInputs ==
    {CreateInput("e1", "h1", "K1", "D1", "sum", SupportedChain, "app1", "none"),
     CreateInput("e1", "h1", "K1", "D1", "lower", SupportedChain, "app1", "none"),
     CreateInput("e1", "h1", "K1", "D1", "sum", SupportedChain, "app2", "none"),
     CreateInput("e1", "h2", "K2", "D1", "sum", SupportedChain, "app1", "none"),
     CreateInput("e1", "h2", "K2", "D1", "sum", SupportedChain, "app1",
                 "traceTransaction"),
     CreateInput("e1", "h3", "K1", "D2", "sum", SupportedChain, "app1", "none"),
     CreateInput("e2", "h1", "K1", "D1", "sum", SupportedChain, "app3", "none")}

\* Registrations that the checks before the transaction reject.
BadCreateInputs ==
    {CreateInput("e1", "h1", "K1", "D1", "sum", UnsupportedChain, "app1", "none"),
     CreateInput("e1", "h1", "K1", "D1", "sum", SupportedChain, "app1", "getTransaction"),
     CreateInput("e1", "h1", "K1", "D1", "sum", SupportedChain, "app1",
                 "getTransactionReceipt"),
     CreateInput("e1", "h1", "K1", "D1", "sum", SupportedChain, "app1", "getBlock"),
     CreateInput("e1", "h3", "K1", "D2", "sum", SupportedChain, "app1",
                 "traceTransaction"),
     CreateInput("e1", "h4", "K2", "D2", "sum", SupportedChain, "app1", "none"),
     CreateInput("e1", "h5", "K1", "D2", "sum", SupportedChain, "app1", "none"),
     CreateInput("e1", "h6", "K1", "D2", "sum", SupportedChain, "app1", "none"),
     CreateInput("e1", "h1", "K1", "D2", "sum", SupportedChain, "app1", "none"),
     CreateInput("e1", "h1", "K2", "D1", "lower", SupportedChain, "app1", "none")}

CreateInputs == GoodCreateInputs \cup BadCreateInputs

DeleteInputs ==
    {[op |-> "deleteContract", entityId |-> e, contractId |-> c] :
        e \in Entities, c \in 1..MaxContracts}

StartInputs ==
    {[op |-> "startVerification", entityId |-> e, contractId |-> c] :
        e \in Entities, c \in 1..MaxContracts}

GetInputs ==
    {[op |-> "getContract", entityId |-> e, contractId |-> c] :
        e \in Entities, c \in 1..MaxContracts}

CompleteInputs ==
    {[op |-> "completeVerification", entityId |-> e, challengeId |-> c,
      signature |-> g] :
        e \in Entities, c \in 1..MaxChallenges, g \in Signatures}

\* The requests of entity e1 about its contract K1 (contract id 1).
NarrowInputs ==
    {r \in CreateInputs :
        /\ r.entityId = "e1" /\ r.appId = "app1" /\ r.deploymentTxHash = "h1"
        /\ r.contractAddress = Addr("K1", "sum") /\ r.deployerAddress = Addr("D1", "sum")
        /\ r.chainId = SupportedChain /\ r.rpcFailure = "none"}
    \cup {r \in DeleteInputs \cup StartInputs : r.entityId = "e1" /\ r.contractId = 1}
    \cup {r \in CompleteInputs : r.entityId = "e1"}

(* ------------------------------------------------------------------ *)
(* State                                                                *)
(* ------------------------------------------------------------------ *)

VARIABLES
    contracts,    \* committed contracts table: sequence of rows, the index is the id
    transactions, \* committed transactions table: set of rows
    challenges,   \* committed challenges table: sequence of rows, the index is the id
    pc,           \* where each request stands
    req,          \* each request's caller and input
    loc,          \* each request's local variables
    tx,           \* each request's open database transaction: its uncommitted writes
    last,         \* the response sent in the latest step, if that step ended a request
    served        \* requests started so far

vars == <<contracts, transactions, challenges, pc, req, loc, tx, last, served>>

store == <<contracts, transactions, challenges>>

NoReq == [op |-> "none"]

NoLoc == [op |-> "none"]

NoLast == [op |-> "none"]

\* No open transaction: nothing inserted, nothing updated.
NoTx == [ins |-> {}, upd |-> {}, chal |-> {}, trec |-> {}]

\* The tables a behaviour starts from: empty, or as they are once entity e1 has
\* registered contract K1 (createContract), asked for a challenge
\* (startVerification) and answered it (completeVerification).  The second is
\* reached from the first within MaxRequests requests; starting there as well
\* gives the requests that follow a verification their full number.
Seeds ==
    {[contracts |-> << >>, transactions |-> {}, challenges |-> << >>],
     [contracts |->
          << [entityId |-> "e1", chainId |-> SupportedChain, appId |-> "app1",
              contractAddress |-> Addr("K1", "sum"),
              deployerAddress |-> Addr("D1", "sum"),
              deploymentTxHash |-> "h1", state |-> VERIFIED] >>,
      transactions |->
          {[contractId |-> 1, entityId |-> "e1", chainId |-> SupportedChain,
            transactionHash |-> "h1", fromAddress |-> Addr("D1", "lower")]},
      challenges |->
          << [entityId |-> "e1", contractId |-> 1, address |-> Addr("D1", "sum"),
              chainId |-> SupportedChain, state |-> COMPLETED, elapsed |-> 0] >>]}

Init ==
    /\ \E seed \in Seeds :
           /\ contracts = seed.contracts
           /\ transactions = seed.transactions
           /\ challenges = seed.challenges
    /\ pc = [p \in Procs |-> "idle"]
    /\ req = [p \in Procs |-> NoReq]
    /\ loc = [p \in Procs |-> NoLoc]
    /\ tx = [p \in Procs |-> NoTx]
    /\ last = NoLast
    /\ served = 0

ContractIds == DOMAIN contracts

ChallengeIds == DOMAIN challenges

\* The columns of the unique index entityChainContractIdx.
KeyOf(row) == <<row.entityId, row.chainId, row.contractAddress>>

\* The contract rows another request's open transaction has updated and not yet
\* committed: an UPDATE of such a row waits for that transaction to end.
LockedContracts(p) == {u.id : u \in UNION {tx[q].upd : q \in Procs \ {p}}}

LockedChallenges(p) == UNION {tx[q].chal : q \in Procs \ {p}}

\* The keys another request's open transaction has inserted and not yet committed:
\* an INSERT of the same key waits for that transaction to end.
PendingKeys(p) == {KeyOf(r) : r \in UNION {tx[q].ins : q \in Procs \ {p}}}

\* The requests that race are the ones of one entity about one contract: a
\* request whose input is outside NarrowInputs is served alone.
Admit(p, r) ==
    \A q \in Procs \ {p} : pc[q] # "idle" => r \in NarrowInputs /\ req[q] \in NarrowInputs

\* The task that takes the next request: tasks are alike, so it is r1 when idle.
Free(p) == pc[p] = "idle" /\ (p = "r1" \/ pc["r1"] # "idle")

\* A request begins: its input and locals are recorded.
Begin(p, r, l, to) ==
    /\ last = NoLast
    /\ Free(p)
    /\ Admit(p, r)
    /\ served < MaxRequests
    /\ served' = served + 1
    /\ pc' = [pc EXCEPT ![p] = to]
    /\ req' = [req EXCEPT ![p] = r]
    /\ loc' = [loc EXCEPT ![p] = l]
    /\ last' = NoLast

\* A request in flight ends: an open transaction that did not commit is rolled
\* back (its writes are dropped).
End(p) ==
    /\ pc' = [pc EXCEPT ![p] = "idle"]
    /\ req' = [req EXCEPT ![p] = NoReq]
    /\ loc' = [loc EXCEPT ![p] = NoLoc]
    /\ tx' = [tx EXCEPT ![p] = NoTx]

\* The response of a request: its status, message and the id it returns, if any;
\* cause is the error first thrown (the one the handler logs), which a catch may
\* have replaced by msg.
Response(r, status, msg, id, cause) ==
    [op |-> r.op, status |-> status, msg |-> msg, id |-> id, cause |-> cause,
     req |-> r]

\* A request in flight ends with a response.
Respond(p, status, msg, id, cause) ==
    /\ End(p)
    /\ last' = Response([op |-> req[p].op], status, msg, id, cause)

\* A request is rejected in the step that receives it.  Such a request reads the
\* committed tables and writes nothing, and every committed state is also reached
\* with no request in flight (a request in flight may fail), so the rejections
\* are taken in those states.
Reject(p, r, status, msg) ==
    /\ last = NoLast
    /\ Free(p)
    /\ \A q \in Procs : pc[q] = "idle"
    /\ last' = Response(r, status, msg, 0, msg)
    /\ UNCHANGED <<pc, req, loc, tx, served>>

\* A request takes a step without ending.
Goto(p, to, l) ==
    /\ pc' = [pc EXCEPT ![p] = to]
    /\ loc' = [loc EXCEPT ![p] = l]
    /\ last' = NoLast
    /\ UNCHANGED <<req, served>>

(* ------------------------------------------------------------------ *)
(* Contract Store (models/contracts.ts)                                 *)
(* ------------------------------------------------------------------ *)

\* A variant of the query below without the condition on the entity.
getActiveContractOfAnyEntity(contractId, entityId) ==
    IF contractId \in ContractIds /\ contracts[contractId].state # DELETED
    THEN contractId
    ELSE 0

\* A variant of the query below without the condition on the state.
getActiveContractWithDeleted(contractId, entityId) ==
    IF contractId \in ContractIds /\ contracts[contractId].entityId = entityId
    THEN contractId
    ELSE 0

\* getActiveContract: the row of that id and entity unless DELETED; 0 for null.
getActiveContract(contractId, entityId) ==
    IF /\ contractId \in ContractIds
       /\ contracts[contractId].entityId = entityId
       /\ contracts[contractId].state # DELETED
    THEN contractId
    ELSE 0

\* A variant of the lookup below that leaves the DELETED rows out.
getContractByAddressAndChainIdActiveOnly(contractAddress, chainId, entityId) ==
    LET results == {i \in ContractIds :
                        /\ contracts[i].entityId = entityId
                        /\ contracts[i].contractAddress = getAddress(contractAddress)
                        /\ contracts[i].chainId = chainId
                        /\ contracts[i].state # DELETED}
    IN  IF results = {} THEN 0 ELSE CHOOSE i \in results : \A j \in results : i <= j

\* getContractByAddressAndChainId: results[0] of the rows of that entity, address
\* (checksummed) and chain, DELETED rows included; 0 for null.
getContractByAddressAndChainId(contractAddress, chainId, entityId) ==
    LET results == {i \in ContractIds :
                        /\ contracts[i].entityId = entityId
                        /\ contracts[i].contractAddress = getAddress(contractAddress)
                        /\ contracts[i].chainId = chainId}
    IN  IF results = {} THEN 0 ELSE CHOOSE i \in results : \A j \in results : i <= j

\* A variant of the query below without the condition on the entity.
hasAlreadyVerifiedDeployerOfAnyEntity(entityId, deployerAddress) ==
    \E i \in ContractIds :
        /\ contracts[i].state = VERIFIED
        /\ contracts[i].deployerAddress = getAddress(deployerAddress)

\* hasAlreadyVerifiedDeployer: some VERIFIED row of the entity has that deployer.
hasAlreadyVerifiedDeployer(entityId, deployerAddress) ==
    \E i \in ContractIds :
        /\ contracts[i].entityId = entityId
        /\ contracts[i].state = VERIFIED
        /\ contracts[i].deployerAddress = getAddress(deployerAddress)

\* insertContract: the row as stored, both addresses checksummed.
insertContract(contract) ==
    [contract EXCEPT !.contractAddress = getAddress(contract.contractAddress),
                     !.deployerAddress = getAddress(contract.deployerAddress)]

\* A variant of the index below that covers the rows that are not DELETED only.
UniqueViolationAmongActive(row) ==
    \E i \in ContractIds :
        KeyOf(contracts[i]) = KeyOf(row) /\ contracts[i].state # DELETED

\* The unique index entityChainContractIdx refuses a row whose key a committed
\* row (of any state) already has.
UniqueViolation(row) == \E i \in ContractIds : KeyOf(contracts[i]) = KeyOf(row)

\* restoreDeletedContract: UPDATE ... SET state, appId WHERE id = contractId.
restoreDeletedContract(contractId, appId, state) ==
    {[id |-> i, set |-> [state |-> state, appId |-> appId]] :
        i \in {j \in ContractIds : j = contractId}}

\* verifyContract: UPDATE ... SET state = VERIFIED WHERE entityId AND id.
verifyContract(entityId, contractId) ==
    {[id |-> i, set |-> [state |-> VERIFIED]] :
        i \in {j \in ContractIds :
                  contracts[j].entityId = entityId /\ j = contractId}}

\* deleteContract: UPDATE ... SET state = DELETED WHERE entityId AND id.
deleteContract(entityId, contractId) ==
    {[id |-> i, set |-> [state |-> DELETED]] :
        i \in {j \in ContractIds :
                  contracts[j].entityId = entityId /\ j = contractId}}

\* The contracts table after a set of row updates and a set of inserted rows; an
\* inserted row gets a fresh id.
ApplyContracts(upd, ins) ==
    LET updated == [i \in ContractIds |->
                       IF \E u \in upd : u.id = i
                       THEN LET u == CHOOSE u \in upd : u.id = i
                            IN  [f \in DOMAIN contracts[i] |->
                                    IF f \in DOMAIN u.set THEN u.set[f]
                                    ELSE contracts[i][f]]
                       ELSE contracts[i]]
    IN  IF ins = {} THEN updated ELSE Append(updated, CHOOSE r \in ins : TRUE)

(* ------------------------------------------------------------------ *)
(* Challenge Store and utilities                                        *)
(* ------------------------------------------------------------------ *)

\* The fixed validity window of a challenge.
ChallengeTTL == 1

\* A challenge is unexpired while it is PENDING and inside its validity window
\* (elapsed is the time since the row was created, counted up to the window).
Unexpired(row) == row.state = PENDING /\ row.elapsed < ChallengeTTL

\* A challenge row as a read returns it: expiry is evaluated at read time.
ReadChallenge(i) ==
    IF challenges[i].state = PENDING /\ ~Unexpired(challenges[i])
    THEN [challenges[i] EXCEPT !.state = EXPIRED]
    ELSE challenges[i]

\* getUnexpiredChallenge: the unexpired challenges of that entity and contract.
getUnexpiredChallenge(entityId, contractId) ==
    {i \in ChallengeIds :
        /\ challenges[i].entityId = entityId
        /\ challenges[i].contractId = contractId
        /\ Unexpired(challenges[i])}

\* getChallengeByChallengeId: the challenge of that id and entity; 0 for null.
getChallengeByChallengeId(entityId, challengeId) ==
    IF challengeId \in ChallengeIds /\ challenges[challengeId].entityId = entityId
    THEN challengeId
    ELSE 0

\* insertChallenge: the row as stored, created now.
insertChallenge(challenge) ==
    [entityId |-> challenge.entityId, contractId |-> challenge.contractId,
     address |-> challenge.address, chainId |-> challenge.chainId,
     state |-> challenge.state, elapsed |-> 0]

\* completeChallenge: UPDATE ... SET state = COMPLETED WHERE entityId AND id.
completeChallenge(entityId, challengeId) ==
    {i \in ChallengeIds : challenges[i].entityId = entityId /\ i = challengeId}

\* The challenges table after a set of challenges was completed.
ApplyChallenges(done) ==
    [i \in ChallengeIds |->
        IF i \in done THEN [challenges[i] EXCEPT !.state = COMPLETED] ELSE challenges[i]]

\* verifyMessage: the signature is the address's over the message.
verifyMessage(address, message, signature) ==
    signature.signer = address.a /\ signature.message = message

\* supportedChainsPublicClientsMap[chainId] is defined.
publicClient(chainId) == chainId = SupportedChain

(* ------------------------------------------------------------------ *)
(* createContract                                                       *)
(* ------------------------------------------------------------------ *)

\* A variant of the checks below without the comparison of receipt.from with the
\* claimed deployer address.
PreflightWithoutDeployerCheck(input) ==
    LET inputContractAddress == getAddress(input.contractAddress)
        receipt == ChainTx[input.deploymentTxHash]
        traced == receipt.contractAddress = NoAddr
        resolved == txContractAddress(input.deploymentTxHash)
    IN  IF ~publicClient(input.chainId)
        THEN [status |-> 400, msg |-> "chain not supported"]
        ELSE IF input.rpcFailure \in {"getTransaction", "getTransactionReceipt",
                                      "getBlock"}
        THEN [status |-> 400, msg |-> "error fetching deployment transaction"]
        ELSE IF traced /\ input.rpcFailure = "traceTransaction"
        THEN [status |-> 500, msg |-> "error fetching deployment transaction"]
        ELSE IF resolved = NoAddr
        THEN [status |-> 400,
              msg |-> "the provided deployment transaction did not create a contract"]
        ELSE IF ~addressEqualityCheck(resolved, inputContractAddress)
        THEN [status |-> 400,
              msg |-> "contract was not created by deployment transaction"]
        ELSE [status |-> 0, msg |-> ""]

\* Lines 136-246: what the request is answered with before the registration
\* transaction is opened; status 0 when every check passes.
Preflight(input) ==
    LET inputContractAddress == getAddress(input.contractAddress)
        inputDeployerAddress == getAddress(input.deployerAddress)
        receipt == ChainTx[input.deploymentTxHash]
        traced == receipt.contractAddress = NoAddr
        resolved == txContractAddress(input.deploymentTxHash)
    IN  IF ~publicClient(input.chainId)
        THEN [status |-> 400, msg |-> "chain not supported"]
        ELSE IF input.rpcFailure \in {"getTransaction", "getTransactionReceipt",
                                      "getBlock"}
        THEN [status |-> 400, msg |-> "error fetching deployment transaction"]
        ELSE IF traced /\ input.rpcFailure = "traceTransaction"
        THEN [status |-> 500, msg |-> "error fetching deployment transaction"]
        ELSE IF resolved = NoAddr
        THEN [status |-> 400,
              msg |-> "the provided deployment transaction did not create a contract"]
        ELSE IF ~addressEqualityCheck(receipt.from, inputDeployerAddress)
        THEN [status |-> 400,
              msg |-> "deployer address does not match deployment transaction"]
        ELSE IF ~addressEqualityCheck(resolved, inputContractAddress)
        THEN [status |-> 400,
              msg |-> "contract was not created by deployment transaction"]
        ELSE [status |-> 0, msg |-> ""]

CcLoc == [isDeployerVerified |-> FALSE, existingContract |-> 0, overlapped |-> FALSE]

\* Lines 128-246 ending in a rejection: nothing is read from or written to the store.
CreateContractRejected(p, input) ==
    /\ Preflight(input).status # 0
    /\ Reject(p, input, Preflight(input).status, Preflight(input).msg)
    /\ UNCHANGED store

\* Lines 128-248: every check passes and the registration transaction is opened.
CreateContractBegin(p, input) ==
    /\ Preflight(input).status = 0
    /\ Begin(p, input, CcLoc, "cc_hasAlreadyVerifiedDeployer")
    /\ UNCHANGED <<store, tx>>

\* Lines 250-254.
CcHasAlreadyVerifiedDeployer(p) ==
    /\ last = NoLast
    /\ pc[p] = "cc_hasAlreadyVerifiedDeployer"
    /\ Goto(p, "cc_getContractByAddressAndChainId",
            [loc[p] EXCEPT !.isDeployerVerified =
                hasAlreadyVerifiedDeployer(req[p].entityId,
                                           getAddress(req[p].deployerAddress))])
    /\ UNCHANGED <<store, tx>>

\* Lines 256-267 and 321-333: the lookup; an active match throws 400 inside the
\* transaction, which rolls back, and the outer catch answers 500.
CcGetContractByAddressAndChainId(p) ==
    /\ last = NoLast
    /\ pc[p] = "cc_getContractByAddressAndChainId"
    /\ LET existingContract ==
               getContractByAddressAndChainId(getAddress(req[p].contractAddress),
                                              req[p].chainId, req[p].entityId)
           l == [loc[p] EXCEPT !.existingContract = existingContract]
       IN  IF existingContract # 0 /\ contracts[existingContract].state # DELETED
           THEN /\ Respond(p, 500, "error creating contract", 0,
                           "contract already exists")
                /\ UNCHANGED served
           ELSE /\ Goto(p, IF existingContract # 0 THEN "cc_restoreDeletedContract"
                                                   ELSE "cc_insertContract", l)
                /\ UNCHANGED tx
    /\ UNCHANGED store

\* The state a registration gives the contract (lines 274-276 and 301-303).
RegisteredState(isDeployerVerified) ==
    IF isDeployerVerified THEN VERIFIED ELSE NOT_VERIFIED

\* A variant of the step below in which the restore branch records the deployment
\* transaction of the request as the insert branch does.
CcRestoreDeletedContractWithTransaction(p) ==
    /\ last = NoLast
    /\ pc[p] = "cc_restoreDeletedContract"
    /\ loc[p].existingContract \notin LockedContracts(p)
    /\ tx' = [tx EXCEPT ![p].upd =
                 restoreDeletedContract(loc[p].existingContract, req[p].appId,
                                        IF loc[p].isDeployerVerified
                                        THEN VERIFIED ELSE NOT_VERIFIED),
                         ![p].trec =
                 {[entityId |-> req[p].entityId, chainId |-> req[p].chainId,
                   transactionHash |-> req[p].deploymentTxHash,
                   fromAddress |-> ChainTx[req[p].deploymentTxHash].from]}]
    /\ Goto(p, "cc_commit", loc[p])
    /\ UNCHANGED store

\* A variant of the step below whose UPDATE also sets the deployer address and the
\* deployment transaction hash of the request.
CcRestoreDeletedContractOverwriting(p) ==
    /\ last = NoLast
    /\ pc[p] = "cc_restoreDeletedContract"
    /\ loc[p].existingContract \notin LockedContracts(p)
    /\ tx' = [tx EXCEPT ![p].upd =
                 {[id |-> loc[p].existingContract,
                   set |-> [state |-> RegisteredState(loc[p].isDeployerVerified),
                            appId |-> req[p].appId,
                            deployerAddress |-> getAddress(req[p].deployerAddress),
                            deploymentTxHash |-> req[p].deploymentTxHash]]}]
    /\ Goto(p, "cc_commit", loc[p])
    /\ UNCHANGED store

\* Lines 269-291: the UPDATE of the row found DELETED; it waits while another open
\* transaction holds the row.
CcRestoreDeletedContract(p) ==
    /\ last = NoLast
    /\ pc[p] = "cc_restoreDeletedContract"
    /\ loc[p].existingContract \notin LockedContracts(p)
    /\ tx' = [tx EXCEPT ![p].upd =
                 restoreDeletedContract(loc[p].existingContract, req[p].appId,
                                        RegisteredState(loc[p].isDeployerVerified))]
    /\ Goto(p, "cc_commit", loc[p])
    /\ UNCHANGED store

\* The row createContract hands to insertContract (lines 295-305).
NewContract(r, isDeployerVerified) ==
    [entityId |-> r.entityId, chainId |-> r.chainId, appId |-> r.appId,
     contractAddress |-> getAddress(r.contractAddress),
     deployerAddress |-> getAddress(r.deployerAddress),
     deploymentTxHash |-> r.deploymentTxHash,
     state |-> RegisteredState(isDeployerVerified)]

\* Lines 293-306: the INSERT; it waits while another open transaction has inserted
\* the same key, and fails on a committed row of the same key (the transaction
\* rolls back and the outer catch answers 500).
CcInsertContract(p) ==
    /\ last = NoLast
    /\ pc[p] = "cc_insertContract"
    /\ LET row == insertContract(NewContract(req[p], loc[p].isDeployerVerified))
       IN  /\ KeyOf(row) \notin PendingKeys(p)
           /\ IF UniqueViolation(row)
              THEN /\ Respond(p, 500, "error creating contract", 0,
                              "unique index violation")
                   /\ UNCHANGED served
              ELSE /\ Len(contracts)
                        + Cardinality({q \in Procs : tx[q].ins # {}}) < MaxContracts
                   /\ tx' = [tx EXCEPT ![p].ins = {row}]
                   /\ Goto(p, "cc_insertTransaction", loc[p])
    /\ UNCHANGED store

\* viemContractDeploymentTransactionToDbTransaction: the transaction record of a
\* deployment; the contract id is the inserted row's.
DeploymentTransaction(r) ==
    [entityId |-> r.entityId, chainId |-> r.chainId,
     transactionHash |-> r.deploymentTxHash,
     fromAddress |-> ChainTx[r.deploymentTxHash].from]

\* Lines 307-317.
CcInsertTransaction(p) ==
    /\ last = NoLast
    /\ pc[p] = "cc_insertTransaction"
    /\ tx' = [tx EXCEPT ![p].trec = {DeploymentTransaction(req[p])}]
    /\ Goto(p, "cc_commit", loc[p])
    /\ UNCHANGED store

\* Requests registering the same (entity, chain, address) that are in flight.
SameKeyInFlight(p) ==
    {q \in Procs \ {p} :
        /\ req[q].op = "createContract"
        /\ req[q].entityId = req[p].entityId
        /\ req[q].chainId = req[p].chainId
        /\ getAddress(req[q].contractAddress) = getAddress(req[p].contractAddress)}

\* Lines 291, 318-320 and 335: the transaction commits, its writes become visible
\* together, and the contract is returned.  (overlapped records, for the requests
\* still in flight, that a registration of their key has succeeded meanwhile.)
CcCommit(p) ==
    /\ last = NoLast
    /\ pc[p] = "cc_commit"
    /\ contracts' = ApplyContracts(tx[p].upd, tx[p].ins)
    /\ transactions' = transactions \cup
           {[t EXCEPT !.contractId = Len(contracts')] :
               t \in {[contractId |-> 0] @@ u : u \in tx[p].trec}}
    /\ pc' = [pc EXCEPT ![p] = "idle"]
    /\ req' = [req EXCEPT ![p] = NoReq]
    /\ loc' = [q \in Procs |->
                 IF q = p THEN NoLoc
                 ELSE IF q \in SameKeyInFlight(p)
                      THEN [loc[q] EXCEPT !.overlapped = TRUE]
                      ELSE loc[q]]
    /\ tx' = [tx EXCEPT ![p] = NoTx]
    /\ last' = [restored |-> tx[p].ins = {}] @@
                Response(req[p], 200, "",
                         IF tx[p].ins # {} THEN Len(contracts')
                         ELSE loc[p].existingContract, "")
    /\ UNCHANGED <<challenges, served>>

(* ------------------------------------------------------------------ *)
(* deleteContract                                                       *)
(* ------------------------------------------------------------------ *)

\* Lines 561-584: one UPDATE outside any transaction, committed at once; it waits
\* while an open transaction holds the row.  The answer is success whatever the
\* number of rows updated.
DeleteContract(p, input) ==
    /\ last = NoLast
    /\ Free(p)
    /\ Admit(p, input)
    /\ served < MaxRequests
    /\ served' = served + 1
    /\ input.contractId \notin LockedContracts(p)
    /\ contracts' = ApplyContracts(deleteContract(input.entityId, input.contractId), {})
    /\ last' = Response(input, 200, "", 0, "")
    /\ UNCHANGED <<pc, req, loc, tx>>
    /\ UNCHANGED <<transactions, challenges>>

(* ------------------------------------------------------------------ *)
(* getContract                                                          *)
(* ------------------------------------------------------------------ *)

\* Lines 523-548 ending in the rejection: no active contract of that id and entity.
GetContractRejected(p, input) ==
    /\ getActiveContract(input.contractId, input.entityId) = 0
    /\ Reject(p, input, 400, "contract does not exist")
    /\ UNCHANGED store

\* Lines 523-550: the active contract is returned; a read, taken like the
\* rejections with no request in flight.
GetContractFound(p, input) ==
    /\ last = NoLast
    /\ Free(p)
    /\ \A q \in Procs : pc[q] = "idle"
    /\ getActiveContract(input.contractId, input.entityId) # 0
    /\ last' = Response(input, 200, "",
                        getActiveContract(input.contractId, input.entityId), "")
    /\ UNCHANGED <<store, pc, req, loc, tx, served>>

(* ------------------------------------------------------------------ *)
(* startVerification                                                    *)
(* ------------------------------------------------------------------ *)

\* A variant of the message below that is made from the chain as well.
challengeToCompleteWithChain(contract) ==
    <<"sign to verify ownership of", contract.deployerAddress, contract.chainId>>

\* Line 394: the message returned with the challenge, made from the deployer
\* address of the contract as read at the start of the request.
challengeToComplete(contract) == generateChallenge(contract.deployerAddress)

\* Lines 352-375 ending in a rejection.
StartVerificationRejected(p, input) ==
    LET contract == getActiveContract(input.contractId, input.entityId)
    IN  /\ IF contract = 0 THEN TRUE ELSE contracts[contract].state = VERIFIED
        /\ Reject(p, input, 400,
                  IF contract = 0 THEN "contract does not exist"
                                  ELSE "contract is already verified")
        /\ UNCHANGED store

\* Lines 352-375: the contract is read and is active and not VERIFIED.  (prior
\* records the challenges of the contract that exist when the request starts.)
StartVerificationBegin(p, input) ==
    LET contract == getActiveContract(input.contractId, input.entityId)
    IN  /\ contract # 0
        /\ contracts[contract].state # VERIFIED
        /\ Begin(p, input,
                 [contract |-> [deployerAddress |-> contracts[contract].deployerAddress,
                                chainId |-> contracts[contract].chainId,
                                state |-> contracts[contract].state],
                  prior |-> {c \in ChallengeIds :
                                challenges[c].contractId = input.contractId}],
                 "sv_getUnexpiredChallenge")
        /\ UNCHANGED <<store, tx>>

\* Lines 377-401: an unexpired challenge is returned as it is, with the message;
\* with none the request goes on to insert one.  (inserted tells the two apart.)
SvGetUnexpiredChallenge(p) ==
    /\ last = NoLast
    /\ pc[p] = "sv_getUnexpiredChallenge"
    /\ LET results == getUnexpiredChallenge(req[p].entityId, req[p].contractId)
       IN  IF results # {}
           THEN /\ \E challenge \in results :
                       /\ End(p)
                       /\ last' = [challengeToComplete |->
                                       challengeToComplete(loc[p].contract),
                                   inserted |-> FALSE] @@
                                  Response([op |-> req[p].op], 200, "", challenge, "")
                /\ UNCHANGED served
           ELSE /\ Goto(p, "sv_insertChallenge", loc[p])
                /\ UNCHANGED tx
    /\ UNCHANGED store

\* Lines 403-425: a PENDING challenge bound to the contract's deployer address and
\* chain is inserted, outside any transaction, and returned.
SvInsertChallenge(p) ==
    /\ last = NoLast
    /\ pc[p] = "sv_insertChallenge"
    /\ Len(challenges) < MaxChallenges
    /\ challenges' = Append(challenges,
           insertChallenge([entityId |-> req[p].entityId,
                            contractId |-> req[p].contractId,
                            address |-> loc[p].contract.deployerAddress,
                            chainId |-> loc[p].contract.chainId,
                            state |-> PENDING]))
    /\ End(p)
    /\ last' = [challengeToComplete |-> challengeToComplete(loc[p].contract),
                inserted |-> TRUE] @@
               Response([op |-> req[p].op], 200, "", Len(challenges'), "")
    /\ UNCHANGED <<contracts, transactions, served>>

(* ------------------------------------------------------------------ *)
(* completeVerification                                                 *)
(* ------------------------------------------------------------------ *)

\* A variant of the checks below in which the result of verifyMessage is not
\* looked at.
PrecheckIgnoringSignature(input) ==
    LET id == getChallengeByChallengeId(input.entityId, input.challengeId)
    IN  IF id = 0 \/ ReadChallenge(id).state = EXPIRED
        THEN [status |-> 400, msg |-> "challenge does not exist or is expired"]
        ELSE IF ~publicClient(ReadChallenge(id).chainId)
        THEN [status |-> 500, msg |-> "challenge is on invalid chain id"]
        ELSE [status |-> 0, msg |-> ""]

\* A variant of the checks below that accepts a signature for the newest
\* challenge of a contract only.
PrecheckNewestChallengeOnly(input) ==
    LET id == getChallengeByChallengeId(input.entityId, input.challengeId)
    IN  IF id = 0 \/ ReadChallenge(id).state = EXPIRED
        THEN [status |-> 400, msg |-> "challenge does not exist or is expired"]
        ELSE IF ~publicClient(ReadChallenge(id).chainId)
        THEN [status |-> 500, msg |-> "challenge is on invalid chain id"]
        ELSE IF \/ ~verifyMessage(ReadChallenge(id).address,
                                  generateChallenge(ReadChallenge(id).address),
                                  input.signature)
                \/ \E j \in ChallengeIds :
                       j > id /\ challenges[j].contractId = challenges[id].contractId
        THEN [status |-> 400, msg |-> "challenge was not completed successfully"]
        ELSE [status |-> 0, msg |-> ""]

\* Lines 443-481: what the request is answered with before the transaction is
\* opened; status 0 when the challenge is found, not EXPIRED, and the signature is
\* the bound address's over the challenge message.
Precheck(input) ==
    LET id == getChallengeByChallengeId(input.entityId, input.challengeId)
    IN  IF id = 0 \/ ReadChallenge(id).state = EXPIRED
        THEN [status |-> 400, msg |-> "challenge does not exist or is expired"]
        ELSE IF ~publicClient(ReadChallenge(id).chainId)
        THEN [status |-> 500, msg |-> "challenge is on invalid chain id"]
        ELSE IF ~verifyMessage(ReadChallenge(id).address,
                               generateChallenge(ReadChallenge(id).address),
                               input.signature)
        THEN [status |-> 400, msg |-> "challenge was not completed successfully"]
        ELSE [status |-> 0, msg |-> ""]

\* Lines 437-481 ending in a rejection.
CompleteVerificationRejected(p, input) ==
    /\ Precheck(input).status # 0
    /\ Reject(p, input, Precheck(input).status, Precheck(input).msg)
    /\ UNCHANGED store

\* Lines 437-484: the signature is accepted and the transaction is opened.
CompleteVerificationBegin(p, input) ==
    /\ Precheck(input).status = 0
    /\ Begin(p, input, [challenge |-> ReadChallenge(input.challengeId)],
             "cv_completeChallenge")
    /\ UNCHANGED <<store, tx>>

\* A variant of the step below in which the UPDATE of the challenge is issued on
\* the connection and not on the transaction: it is committed at once.
CvCompleteChallengeOutsideTransaction(p) ==
    /\ last = NoLast
    /\ pc[p] = "cv_completeChallenge"
    /\ req[p].challengeId \notin LockedChallenges(p)
    /\ challenges' = ApplyChallenges(completeChallenge(req[p].entityId,
                                                       req[p].challengeId))
    /\ Goto(p, "cv_verifyContract", loc[p])
    /\ UNCHANGED <<contracts, transactions, tx>>

\* Lines 485-489: the UPDATE of the challenge, inside the transaction.
CvCompleteChallenge(p) ==
    /\ last = NoLast
    /\ pc[p] = "cv_completeChallenge"
    /\ req[p].challengeId \notin LockedChallenges(p)
    /\ tx' = [tx EXCEPT ![p].chal = completeChallenge(req[p].entityId,
                                                      req[p].challengeId)]
    /\ Goto(p, "cv_verifyContract", loc[p])
    /\ UNCHANGED store

\* Lines 490-494: the UPDATE of the contract, inside the transaction.
CvVerifyContract(p) ==
    /\ last = NoLast
    /\ pc[p] = "cv_verifyContract"
    /\ loc[p].challenge.contractId \notin LockedContracts(p)
    /\ tx' = [tx EXCEPT ![p].upd = verifyContract(req[p].entityId,
                                                  loc[p].challenge.contractId)]
    /\ Goto(p, "cv_commit", loc[p])
    /\ UNCHANGED store

\* Lines 495 and 512: the transaction commits, both updates become visible
\* together, and success is returned.  (The response records the request and the
\* challenge as the request read it.)
CvCommit(p) ==
    /\ last = NoLast
    /\ pc[p] = "cv_commit"
    /\ contracts' = ApplyContracts(tx[p].upd, {})
    /\ challenges' = ApplyChallenges(tx[p].chal)
    /\ End(p)
    /\ last' = [challenge |-> loc[p].challenge] @@ Response(req[p], 200, "", 0, "")
    /\ UNCHANGED <<transactions, served>>

(* ------------------------------------------------------------------ *)
(* Failures and time                                                    *)
(* ------------------------------------------------------------------ *)

\* The steps at which a request has a database statement or a commit ahead of it,
\* with the answer its catch gives when that statement throws.
FailureAnswer ==
    [cc_hasAlreadyVerifiedDeployer |-> "error creating contract",
     cc_getContractByAddressAndChainId |-> "error creating contract",
     cc_restoreDeletedContract |-> "error creating contract",
     cc_insertContract |-> "error creating contract",
     cc_insertTransaction |-> "error creating contract",
     cc_commit |-> "error creating contract",
     sv_getUnexpiredChallenge |-> "error fetching challenge",
     sv_insertChallenge |-> "error creating challenge",
     cv_completeChallenge |-> "server failed to mark challenge as complete",
     cv_verifyContract |-> "server failed to mark challenge as complete",
     cv_commit |-> "server failed to mark challenge as complete"]

\* A database statement (or the commit) of the request throws: the open
\* transaction is rolled back and the catch answers 500.
DbFailure(p) ==
    /\ last = NoLast
    /\ pc[p] \in DOMAIN FailureAnswer
    /\ Respond(p, 500, FailureAnswer[pc[p]], 0, "database error")
    /\ UNCHANGED <<store, served>>

\* Time passes: every challenge is one instant older.
Tick ==
    /\ last = NoLast
    /\ \E i \in ChallengeIds : challenges[i].elapsed < ChallengeTTL
    /\ challenges' = [i \in ChallengeIds |->
                         [challenges[i] EXCEPT
                             !.elapsed = IF @ < ChallengeTTL THEN @ + 1 ELSE @]]
    /\ last' = NoLast
    /\ UNCHANGED <<contracts, transactions, pc, req, loc, tx, served>>

\* The response of the latest step is delivered to its caller; the next step of
\* any request comes after that.
Deliver ==
    /\ last # NoLast
    /\ last' = NoLast
    /\ UNCHANGED <<store, pc, req, loc, tx, served>>

Next ==
    \/ \E p \in Procs, input \in CreateInputs : CreateContractRejected(p, input)
    \/ \E p \in Procs, input \in CreateInputs : CreateContractBegin(p, input)
    \/ \E p \in Procs : CcHasAlreadyVerifiedDeployer(p)
    \/ \E p \in Procs : CcGetContractByAddressAndChainId(p)
    \/ \E p \in Procs : CcRestoreDeletedContract(p)
    \/ \E p \in Procs : CcInsertContract(p)
    \/ \E p \in Procs : CcInsertTransaction(p)
    \/ \E p \in Procs : CcCommit(p)
    \/ \E p \in Procs, input \in StartInputs : StartVerificationRejected(p, input)
    \/ \E p \in Procs, input \in StartInputs : StartVerificationBegin(p, input)
    \/ \E p \in Procs : SvGetUnexpiredChallenge(p)
    \/ \E p \in Procs : SvInsertChallenge(p)
    \/ \E p \in Procs, input \in CompleteInputs : CompleteVerificationRejected(p, input)
    \/ \E p \in Procs, input \in CompleteInputs : CompleteVerificationBegin(p, input)
    \/ \E p \in Procs : CvCompleteChallenge(p)
    \/ \E p \in Procs : CvVerifyContract(p)
    \/ \E p \in Procs : CvCommit(p)
    \/ \E p \in Procs, input \in DeleteInputs : DeleteContract(p, input)
    \/ \E p \in Procs, input \in GetInputs : GetContractRejected(p, input)
    \/ \E p \in Procs, input \in GetInputs : GetContractFound(p, input)
    \/ \E p \in Procs : DbFailure(p)
    \/ Tick
    \/ Deliver

Spec == Init /\ [][Next]_vars

\* The tables once entity e1 has registered K1 as deployed by D2 in h3, deleted
\* it, registered K2 as deployed by D1 in h2 and verified K2 (startVerification,
\* then completeVerification with the signature of D1): five requests.
TrustSeed ==
    [contracts |->
         << [entityId |-> "e1", chainId |-> SupportedChain, appId |-> "app1",
             contractAddress |-> Addr("K1", "sum"),
             deployerAddress |-> Addr("D2", "sum"),
             deploymentTxHash |-> "h3", state |-> DELETED],
            [entityId |-> "e1", chainId |-> SupportedChain, appId |-> "app1",
             contractAddress |-> Addr("K2", "sum"),
             deployerAddress |-> Addr("D1", "sum"),
             deploymentTxHash |-> "h2", state |-> VERIFIED] >>,
     transactions |->
         {[contractId |-> 1, entityId |-> "e1", chainId |-> SupportedChain,
           transactionHash |-> "h3", fromAddress |-> Addr("D2", "lower")],
          [contractId |-> 2, entityId |-> "e1", chainId |-> SupportedChain,
           transactionHash |-> "h2", fromAddress |-> Addr("D1", "lower")]},
     challenges |->
         << [entityId |-> "e1", contractId |-> 2, address |-> Addr("D1", "sum"),
             chainId |-> SupportedChain, state |-> COMPLETED, elapsed |-> 0] >>]

\* The requests that follow those five: behaviours start from the empty tables
\* or from the tables the five requests leave.
InitTrust ==
    /\ \E seed \in {[contracts |-> << >>, transactions |-> {}, challenges |-> << >>],
                     TrustSeed} :
           /\ contracts = seed.contracts
           /\ transactions = seed.transactions
           /\ challenges = seed.challenges
    /\ pc = [p \in Procs |-> "idle"]
    /\ req = [p \in Procs |-> NoReq]
    /\ loc = [p \in Procs |-> NoLoc]
    /\ tx = [p \in Procs |-> NoTx]
    /\ last = NoLast
    /\ served = 0

SpecTrust == InitTrust /\ [][Next]_vars

(* ------------------------------------------------------------------ *)
(* Properties                                                           *)
(* ------------------------------------------------------------------ *)

\* The steps of a completeVerification request between the opening of its
\* transaction and its end.
CvSteps == {"cv_completeChallenge", "cv_verifyContract", "cv_commit"}

\* C1: completeVerification with a correct signature marks the challenge COMPLETED
\* and the contract VERIFIED as one atomic unit.  A step of the request that does
\* not end it leaves the committed tables as they are (nothing of the call is
\* observable by another request); the step that ends it with success makes the
\* challenge COMPLETED and the contract VERIFIED in the same step; and when it ends
\* with a failure, at whatever point after the transaction was opened (after the
\* challenge update and before the contract update included), the committed
\* tables are the ones before the call wrote anything.  Whenever a challenge
\* becomes COMPLETED, its contract is VERIFIED in the same state.
C1_AtomicVerification ==
    [][/\ \A p \in Procs :
             pc[p] \in CvSteps /\ pc'[p] # pc[p] =>
                 IF pc'[p] = "idle" /\ last'.status = 200
                 THEN /\ challenges'[req[p].challengeId].state = COMPLETED
                      /\ contracts'[loc[p].challenge.contractId].state = VERIFIED
                 ELSE UNCHANGED store
       /\ \A c \in ChallengeIds :
             challenges[c].state # COMPLETED /\ challenges'[c].state = COMPLETED =>
                 /\ contracts'[challenges[c].contractId].state = VERIFIED
                 /\ \E p \in Procs : /\ pc[p] = "cv_commit"
                                      /\ pc'[p] = "idle"
                                      /\ req[p].challengeId = c
      ]_vars

\* A completeVerification has just succeeded on a challenge it read PENDING: the
\* challenge is COMPLETED and its contract VERIFIED.
C1_Witness ==
    /\ last.op = "completeVerification"
    /\ last.status = 200
    /\ last.challenge.state = PENDING
    /\ challenges[last.req.challengeId].state = COMPLETED
    /\ contracts[last.challenge.contractId].state = VERIFIED

\* C2: of two concurrent createContract requests of one entity for the same
\* (chainId, contractAddress), at most one returns success, whether no row has the
\* key or a DELETED row has it: a request that was in flight when another
\* registration of its key succeeded does not succeed.
C2_OneConcurrentSuccess ==
    [][\A p \in Procs :
          pc[p] = "cc_commit" /\ pc'[p] = "idle" /\ last'.status = 200
              => ~loc[p].overlapped]_vars

\* The committed rows that have the (entityId, chainId, contractAddress) of a
\* createContract request.
RowsOfKey(r) ==
    {i \in ContractIds :
        KeyOf(contracts[i]) = <<r.entityId, r.chainId, getAddress(r.contractAddress)>>}

\* C3: a registration of an (entityId, chainId, contractAddress) whose lookup finds
\* an active row (NOT_VERIFIED or VERIFIED) ends there without success, the error
\* thrown being the duplicate, and changes no row; one whose lookup finds the row
\* DELETED goes on to restore that row, and when it succeeds it returns the same
\* contract id, no longer DELETED, and the number of contract rows has not grown.
C3_DuplicateOrRestore ==
    [][\A p \in Procs :
          /\ (pc[p] = "cc_getContractByAddressAndChainId" /\ pc'[p] # pc[p]) =>
                \A i \in RowsOfKey(req[p]) :
                    IF contracts[i].state # DELETED
                    THEN /\ pc'[p] = "idle"
                         /\ last'.status # 200
                         /\ last'.cause \in {"contract already exists", "database error"}
                         /\ UNCHANGED store
                    ELSE \/ /\ pc'[p] = "cc_restoreDeletedContract"
                            /\ loc'[p].existingContract = i
                         \/ /\ pc'[p] = "idle"
                            /\ last'.cause = "database error"
                            /\ UNCHANGED store
          /\ (/\ pc[p] = "cc_commit"
              /\ pc'[p] = "idle"
              /\ last'.status = 200
              /\ loc[p].existingContract # 0) =>
                /\ last'.id = loc[p].existingContract
                /\ last'.id \in RowsOfKey(req[p])
                /\ contracts'[last'.id].state # DELETED
                /\ Len(contracts') = Len(contracts)
                /\ transactions' = transactions
      ]_vars

\* A registration has just succeeded by restoring the row of its key.
C3_Witness ==
    /\ last.op = "createContract"
    /\ last.status = 200
    /\ last.restored
    /\ contracts[last.id].state # DELETED

\* C4: in every reachable state, the states reached by concurrent startVerification
\* requests for one contract included, each contract has at most one unexpired
\* PENDING challenge.
C4_OneUnexpiredChallenge ==
    \A c, d \in ChallengeIds :
        /\ challenges[c].contractId = challenges[d].contractId
        /\ Unexpired(challenges[c])
        /\ Unexpired(challenges[d])
        => c = d

\* The steps of a startVerification request after the contract was read.
SvSteps == {"sv_getUnexpiredChallenge", "sv_insertChallenge"}

\* C5: a startVerification that starts after an earlier one for the same
\* NOT_VERIFIED contract returned, and ends before the challenge that one returned
\* expires, returns the same challenge id and inserts no challenge.  (Every
\* challenge of the contract that exists when the request starts was returned by
\* the startVerification that inserted it.)
C5_SameChallengeAgain ==
    [][\A p \in Procs :
          (pc[p] \in SvSteps /\ pc'[p] = "idle" /\ last'.status = 200) =>
              \A c \in loc[p].prior :
                  Unexpired(challenges[c]) =>
                      /\ last'.id = c
                      /\ Len(challenges') = Len(challenges)
      ]_vars

\* The signature of a completeVerification request is not the one of the address
\* its challenge is bound to, over the message of that address.
IncorrectSignature(r) ==
    LET id == getChallengeByChallengeId(r.entityId, r.challengeId)
    IN  /\ id # 0
        /\ ~verifyMessage(challenges[id].address,
                          generateChallenge(challenges[id].address), r.signature)

\* C6: completeVerification with an incorrect signature is answered with a
\* rejection of status 400 in a step that writes nothing: the challenge stays as
\* it is (PENDING when it was) and so does the contract.  No request with an
\* incorrect signature gets as far as opening the transaction.
C6_IncorrectSignature ==
    [][/\ (/\ last = NoLast
           /\ last' # NoLast
           /\ last'.req \in CompleteInputs
           /\ IncorrectSignature(last'.req)) =>
              /\ last'.status = 400
              /\ UNCHANGED store
       /\ \A p \in Procs :
             pc[p] = "idle" /\ pc'[p] = "cv_completeChallenge" =>
                 ~IncorrectSignature(req'[p])
      ]_vars

\* A completeVerification on a PENDING challenge has just been rejected for its
\* signature.
C6_Witness ==
    /\ last.op = "completeVerification"
    /\ last.req \in CompleteInputs
    /\ last.status = 400
    /\ last.msg = "challenge was not completed successfully"
    /\ IncorrectSignature(last.req)
    /\ challenges[last.req.challengeId].state = PENDING

\* C7: a COMPLETED challenge is not re-appliable: a completeVerification that
\* reads its challenge COMPLETED (an earlier call has succeeded for it) does not
\* end with success, and its steps change neither the challenge nor any contract.
C7_CompletedNotReappliable ==
    [][\A p \in Procs :
          (/\ pc[p] \in CvSteps
           /\ pc'[p] # pc[p]
           /\ loc[p].challenge.state = COMPLETED) =>
              /\ ~(pc'[p] = "idle" /\ last'.status = 200)
              /\ UNCHANGED <<contracts, challenges>>
      ]_vars

\* C8: a DELETED contract leaves that state only through a restoring
\* registration: a step in which a contract that was DELETED is no longer DELETED
\* is the commit of a createContract that found that row.
C8_DeletedLeavesByRestore ==
    [][\A i \in ContractIds :
          contracts[i].state = DELETED /\ contracts'[i].state # DELETED =>
              \E p \in Procs : /\ pc[p] = "cc_commit"
                               /\ pc'[p] = "idle"
                               /\ loc[p].existingContract = i
      ]_vars

\* C9: in every reachable committed state there is at most one contract row per
\* (entityId, chainId, contractAddress), the DELETED rows counted with the
\* active ones.
C9_OneRowPerKey ==
    \A i, j \in ContractIds :
        KeyOf(contracts[i]) = KeyOf(contracts[j]) => i = j

\* An INSERT of a key that a committed row has was just refused by the index.
C9_Witness ==
    /\ last.op = "createContract"
    /\ last.cause = "unique index violation"
    /\ contracts # <<>>

\* C10: a successful createContract, inserting or restoring, leaves the contract
\* VERIFIED if, at the read its transaction makes, the same entity has a VERIFIED
\* contract with the deployer address of the request, and NOT_VERIFIED otherwise:
\* the answer of that read is exactly "some row of this entity is VERIFIED and
\* has this deployer" (rows of other entities and DELETED rows do not count),
\* and the state committed is the one that answer gives.
C10_AutoTrust ==
    [][\A p \in Procs :
          /\ (pc[p] = "cc_hasAlreadyVerifiedDeployer"
                  /\ pc'[p] = "cc_getContractByAddressAndChainId") =>
                loc'[p].isDeployerVerified =
                    (\E i \in ContractIds :
                        /\ contracts[i].entityId = req[p].entityId
                        /\ contracts[i].state = VERIFIED
                        /\ addressEqualityCheck(contracts[i].deployerAddress,
                                                req[p].deployerAddress))
          /\ (pc[p] = "cc_commit" /\ pc'[p] = "idle" /\ last'.status = 200) =>
                contracts'[last'.id].state =
                    IF loc[p].isDeployerVerified THEN VERIFIED ELSE NOT_VERIFIED
      ]_vars

\* A registration has just succeeded and left its contract VERIFIED.
C10_Witness ==
    /\ last.op = "createContract"
    /\ last.status = 200
    /\ contracts[last.id].state = VERIFIED

\* In this step the contracts and challenges of every entity other than a are
\* as they were, and every row added is a's.
OthersUntouched(a) ==
    /\ \A i \in ContractIds :
          contracts[i].entityId # a =>
              i \in DOMAIN contracts' /\ contracts'[i] = contracts[i]
    /\ \A c \in ChallengeIds :
          challenges[c].entityId # a =>
              c \in DOMAIN challenges' /\ challenges'[c] = challenges[c]
    /\ \A i \in DOMAIN contracts' \ ContractIds : contracts'[i].entityId = a
    /\ \A c \in DOMAIN challenges' \ ChallengeIds : challenges'[c].entityId = a

\* The request is about a contract (a challenge, for completeVerification) that
\* exists and belongs to another entity than the caller.
ForeignRecord(r) ==
    IF r.op = "completeVerification"
    THEN r.challengeId \in ChallengeIds
            /\ challenges[r.challengeId].entityId # r.entityId
    ELSE r.contractId \in ContractIds
            /\ contracts[r.contractId].entityId # r.entityId

\* C11: no operation invoked by an entity changes the state, the appId or the
\* existence of a contract or challenge of another entity: every step of a
\* request, and every request served in one step, leaves the rows of the other
\* entities as they were and adds rows of the caller only.  startVerification,
\* getContract and completeVerification given the id of a record of another
\* entity get the answer an unknown id gets, and never get past that lookup.
C11_TenantIsolation ==
    [][/\ \A p \in Procs :
             pc'[p] # pc[p] =>
                 OthersUntouched(IF pc[p] = "idle" THEN req'[p].entityId
                                                   ELSE req[p].entityId)
       /\ (pc' = pc /\ last = NoLast /\ last' # NoLast) =>
             OthersUntouched(last'.req.entityId)
       /\ (/\ last = NoLast
           /\ last' # NoLast
           /\ last'.req \in StartInputs \cup GetInputs \cup CompleteInputs
           /\ ForeignRecord(last'.req)) =>
              /\ last'.status = 400
              /\ last'.msg = IF last'.op = "completeVerification"
                             THEN "challenge does not exist or is expired"
                             ELSE "contract does not exist"
              /\ UNCHANGED store
       /\ \A p \in Procs :
             (pc[p] = "idle" /\ pc'[p] # "idle"
                  /\ req'[p].op \in {"startVerification", "completeVerification"}) =>
                 ~ForeignRecord(req'[p])
      ]_vars

\* A startVerification for an active contract of another entity has just been
\* answered as for an unknown contract.
C11_Witness ==
    /\ last.op = "startVerification"
    /\ last.req \in StartInputs
    /\ ForeignRecord(last.req)
    /\ contracts[last.req.contractId].state # DELETED
    /\ last.status = 400
    /\ last.msg = "contract does not exist"

\* C12: a createContract refused because an active contract has the same
\* (entityId, chainId, contractAddress) is answered with status 400.
C12_DuplicateAnswered400 ==
    (last.op = "createContract" /\ last.cause = "contract already exists")
        => last.status = 400

\* The contract of a startVerification request is, for the caller, one that does
\* not exist, is DELETED or is VERIFIED.
NotVerifiable(r) ==
    \/ r.contractId \notin ContractIds
    \/ contracts[r.contractId].entityId # r.entityId
    \/ contracts[r.contractId].state \in {DELETED, VERIFIED}

\* C13: startVerification is answered with status 400, and neither creates nor
\* returns a challenge, whenever at its lookup the contract id does not exist
\* for the caller, the contract is DELETED or the contract is VERIFIED; such a
\* request does not get past the lookup, and a challenge is only ever inserted
\* by a startVerification that read its contract NOT_VERIFIED, for that contract.
C13_StartVerificationRejections ==
    [][/\ (/\ last = NoLast
           /\ last' # NoLast
           /\ last'.req \in StartInputs
           /\ NotVerifiable(last'.req)) =>
              /\ last'.status = 400
              /\ last'.id = 0
              /\ UNCHANGED store
       /\ \A p \in Procs :
             (pc[p] = "idle" /\ pc'[p] = "sv_getUnexpiredChallenge") =>
                 /\ ~NotVerifiable(req'[p])
                 /\ loc'[p].contract.state = NOT_VERIFIED
       /\ Len(challenges') # Len(challenges) =>
             /\ Len(challenges') = Len(challenges) + 1
             /\ \E p \in Procs :
                   /\ pc[p] = "sv_insertChallenge"
                   /\ pc'[p] = "idle"
                   /\ loc[p].contract.state = NOT_VERIFIED
                   /\ challenges'[Len(challenges')].contractId = req[p].contractId
                   /\ challenges'[Len(challenges')].entityId = req[p].entityId
      ]_vars

\* A startVerification for a DELETED contract of the caller has just been
\* rejected.
C13_Witness ==
    /\ last.op = "startVerification"
    /\ last.req \in StartInputs
    /\ last.req.contractId \in ContractIds
    /\ contracts[last.req.contractId].entityId = last.req.entityId
    /\ contracts[last.req.contractId].state = DELETED
    /\ last.status = 400

\* The challenge of a completeVerification request is absent for the caller or
\* is read as expired.
AbsentOrExpired(r) ==
    LET id == getChallengeByChallengeId(r.entityId, r.challengeId)
    IN  IF id = 0 THEN TRUE ELSE ReadChallenge(id).state = EXPIRED

\* The rejections of C14: a completeVerification whose challenge is absent for
\* the caller or expired at the lookup is answered 400, changes nothing and
\* does not get past the lookup.
ExpiredRejected ==
    [][/\ (/\ pc' = pc
           /\ last = NoLast
           /\ last' # NoLast
           /\ last'.req \in CompleteInputs
           /\ AbsentOrExpired(last'.req)) =>
              /\ last'.status = 400
              /\ UNCHANGED store
       /\ \A p \in Procs :
             (pc[p] = "idle" /\ pc'[p] = "cv_completeChallenge") =>
                 ~AbsentOrExpired(req'[p])
      ]_vars

\* C14: completeVerification is rejected, and changes neither the challenge nor
\* the contract, when the challenge is absent for the caller or is expired; and
\* a challenge whose validity window has elapsed never becomes COMPLETED and
\* never causes its contract to become VERIFIED: no completeVerification commits
\* on a PENDING challenge that is past its window.
C14_ExpiredNeverCompleted ==
    [][/\ (/\ pc' = pc
           /\ last = NoLast
           /\ last' # NoLast
           /\ last'.req \in CompleteInputs
           /\ AbsentOrExpired(last'.req)) =>
              /\ last'.status = 400
              /\ UNCHANGED store
       /\ \A c \in ChallengeIds :
             (challenges[c].state = PENDING /\ ~Unexpired(challenges[c])) =>
                 /\ challenges'[c].state # COMPLETED
                 /\ \A p \in Procs :
                       (pc[p] = "cv_commit" /\ req[p].challengeId = c) =>
                           contracts'[challenges[c].contractId] =
                               contracts[challenges[c].contractId]
      ]_vars

\* The canonical (checksummed) form of an address, whatever its letter case.
Canonical(x) == [a |-> x.a, c |-> "sum"]

\* The casing half of C15: every stored address is in canonical form, a
\* successful registration returns the row whose contractAddress is the canonical
\* form of the input, a row it inserts has the canonical form of the input
\* deployerAddress, and no two rows of one entity and chain have contract
\* addresses that differ in letter case only.
CanonicalAddresses ==
    [][/\ \A i \in DOMAIN contracts' :
             /\ contracts'[i].contractAddress = Canonical(contracts'[i].contractAddress)
             /\ contracts'[i].deployerAddress = Canonical(contracts'[i].deployerAddress)
       /\ \A i, j \in DOMAIN contracts' :
             (/\ contracts'[i].entityId = contracts'[j].entityId
              /\ contracts'[i].chainId = contracts'[j].chainId
              /\ contracts'[i].contractAddress.a = contracts'[j].contractAddress.a)
                 => i = j
       /\ \A p \in Procs :
             (pc[p] = "cc_commit" /\ pc'[p] = "idle" /\ last'.status = 200) =>
                 /\ contracts'[last'.id].contractAddress =
                        Canonical(req[p].contractAddress)
                 /\ ~last'.restored =>
                        contracts'[last'.id].deployerAddress =
                            Canonical(req[p].deployerAddress)
      ]_vars

\* C15: for every successful registration the stored contractAddress and
\* deployerAddress are the canonical checksummed form of the input, whatever the
\* input casing, and two registrations of one entity on one chain whose contract
\* addresses differ in letter case only address the same row.
C15_StoredAddressesOfInput ==
    [][/\ \A i, j \in DOMAIN contracts' :
             (/\ contracts'[i].entityId = contracts'[j].entityId
              /\ contracts'[i].chainId = contracts'[j].chainId
              /\ contracts'[i].contractAddress.a = contracts'[j].contractAddress.a)
                 => i = j
       /\ \A p \in Procs :
             (pc[p] = "cc_commit" /\ pc'[p] = "idle" /\ last'.status = 200) =>
                 /\ contracts'[last'.id].contractAddress =
                        Canonical(req[p].contractAddress)
                 /\ contracts'[last'.id].deployerAddress =
                        Canonical(req[p].deployerAddress)
      ]_vars

\* C16: the challenge message is a function of the deployer address alone.  The
\* message a startVerification returns with a challenge, inserted or existing,
\* is the message completeVerification checks for that challenge (the one made
\* from the address the challenge is bound to), so the signature of that
\* address over the returned message is accepted; and it is the message of every
\* other challenge bound to the same address.
C16_MessageOfDeployer ==
    [][\A p \in Procs :
          (pc[p] \in SvSteps /\ pc'[p] = "idle" /\ last'.status = 200) =>
              LET address == challenges'[last'.id].address
              IN  /\ last'.challengeToComplete = generateChallenge(address)
                  /\ verifyMessage(address, generateChallenge(address),
                                   [signer |-> address.a,
                                    message |-> last'.challengeToComplete])
                  /\ \A c \in DOMAIN challenges' :
                        challenges'[c].address = contracts'[req[p].contractId].deployerAddress
                            => last'.challengeToComplete =
                                   generateChallenge(challenges'[c].address)
      ]_vars

\* A startVerification has just returned an existing challenge with its message.
C16_Witness ==
    /\ last.op = "startVerification"
    /\ last.status = 200
    /\ ~last.inserted
    /\ last.challengeToComplete = generateChallenge(challenges[last.id].address)

\* The transaction records of a contract.
TransactionsOf(table, i) == {t \in table : t.contractId = i}

\* C17: in every committed state each contract row has exactly one transaction
\* record, created in the step that commits the insertion of the row and never
\* changed afterwards: records are only added, one at a time, by the commit of an
\* inserting registration, for the row it inserts; a registration that fails at
\* the insert of the record, after the insert of the contract, leaves the tables
\* as they were; restore, verify and delete leave the transaction records alone.
C17_OneTransactionPerContract ==
    /\ [](\A i \in ContractIds : Cardinality(TransactionsOf(transactions, i)) = 1)
    /\ [][/\ transactions \subseteq transactions'
          /\ transactions' # transactions =>
                /\ Len(contracts') = Len(contracts) + 1
                /\ transactions' \ transactions =
                       TransactionsOf(transactions', Len(contracts'))
                /\ \E p \in Procs : /\ pc[p] = "cc_commit"
                                    /\ pc'[p] = "idle"
                                    /\ ~last'.restored
          /\ Len(contracts') # Len(contracts) => transactions' # transactions
          /\ \A p \in Procs :
                (pc[p] = "cc_insertTransaction" /\ pc'[p] = "idle") =>
                    UNCHANGED store
         ]_vars

\* A registration has just inserted a contract, which has its one transaction
\* record.
C17_Witness ==
    /\ last.op = "createContract"
    /\ last.status = 200
    /\ ~last.restored
    /\ Cardinality(TransactionsOf(transactions, last.id)) = 1

\* The deployment facts of a createContract request whose chain is supported and
\* whose RPC calls succeed do not bear out the request: the transaction resolves
\* to no created contract, or receipt.from is not the claimed deployer, or the
\* resolved address is not the claimed contract.
DeploymentMismatch(r) ==
    /\ r.chainId = SupportedChain
    /\ r.rpcFailure = "none"
    /\ \/ txContractAddress(r.deploymentTxHash) = NoAddr
       \/ ChainTx[r.deploymentTxHash].from.a # r.deployerAddress.a
       \/ txContractAddress(r.deploymentTxHash).a # r.contractAddress.a

\* C18: createContract is answered with status 400 and writes nothing to the
\* store when the deployment transaction resolves to no created contract
\* address, when receipt.from differs from the claimed deployer address, or when
\* the resolved address differs from the claimed contract address; the three
\* checks are decided before the registration transaction is opened, so no such
\* request gets to open it.
C18_DeploymentChecks ==
    [][/\ (/\ pc' = pc
           /\ last = NoLast
           /\ last' # NoLast
           /\ last'.req \in CreateInputs
           /\ DeploymentMismatch(last'.req)) =>
              /\ last'.status = 400
              /\ UNCHANGED <<store, tx>>
       /\ \A p \in Procs :
             (pc[p] = "idle" /\ pc'[p] = "cc_hasAlreadyVerifiedDeployer") =>
                 ~DeploymentMismatch(req'[p])
      ]_vars

\* A createContract whose claimed deployer is not the sender of the deployment
\* transaction has just been rejected.
C18_Witness ==
    /\ last.op = "createContract"
    /\ last.req \in CreateInputs
    /\ DeploymentMismatch(last.req)
    /\ ChainTx[last.req.deploymentTxHash].from.a # last.req.deployerAddress.a
    /\ last.status = 400
    /\ last.msg = "deployer address does not match deployment transaction"

\* The trace of transaction h is exactly one internal call, of type CREATE2.
OneCreate2(h) ==
    /\ Len(ChainTx[h].calls) = 1
    /\ ChainTx[h].calls[1].type = "CREATE2"

NotCreated == "the provided deployment transaction did not create a contract"

\* C19: createContract takes the created-contract address from the receipt when
\* the receipt has one, and then a failing trace call has no effect; without it
\* the trace is invoked (its failure is answered 500) and a registration goes on
\* only when the trace is exactly one internal call of type CREATE2, whose target
\* is the claimed contract address; every other trace shape (no call, several
\* calls, another call type) is answered 400 "did not create a contract" with
\* the store untouched, and that answer is given for no other transaction.
C19_TraceResolution ==
    [][/\ \A p \in Procs :
             (pc[p] = "idle" /\ pc'[p] = "cc_hasAlreadyVerifiedDeployer") =>
                 LET r == req'[p]
                     receipt == ChainTx[r.deploymentTxHash]
                 IN  IF receipt.contractAddress # NoAddr
                     THEN getAddress(r.contractAddress) =
                              getAddress(receipt.contractAddress)
                     ELSE /\ r.rpcFailure # "traceTransaction"
                          /\ OneCreate2(r.deploymentTxHash)
                          /\ getAddress(r.contractAddress) =
                                 getAddress(receipt.calls[1].to)
       /\ (/\ pc' = pc /\ last = NoLast /\ last' # NoLast
           /\ last'.req \in CreateInputs
           /\ last'.req.chainId = SupportedChain
           /\ last'.req.rpcFailure \in {"none", "traceTransaction"}) =>
              LET r == last'.req
                  receipt == ChainTx[r.deploymentTxHash]
              IN  /\ (receipt.contractAddress = NoAddr
                          /\ r.rpcFailure = "traceTransaction") =>
                         (last'.status = 500 /\ UNCHANGED <<store, tx>>)
                  /\ (receipt.contractAddress = NoAddr /\ r.rpcFailure = "none"
                          /\ ~OneCreate2(r.deploymentTxHash)) =>
                         /\ last'.status = 400
                         /\ last'.msg = NotCreated
                         /\ UNCHANGED <<store, tx>>
                  /\ last'.msg = NotCreated =>
                         /\ receipt.contractAddress = NoAddr
                         /\ ~OneCreate2(r.deploymentTxHash)
      ]_vars

\* A registration whose contract address came from the trace was stored.
C19_Witness ==
    \E i \in DOMAIN contracts :
        /\ contracts[i].deploymentTxHash = "h3"
        /\ ChainTx["h3"].contractAddress = NoAddr
        /\ contracts[i].contractAddress = getAddress(ChainTx["h3"].calls[1].to)

\* A registration whose trace has no call was answered 400.
C19_ZeroCallsRejected ==
    /\ last # NoLast /\ last.req \in CreateInputs
    /\ last.req.deploymentTxHash = "h6" /\ last.status = 400

\* A registration went on although its trace call fails: the receipt has the address.
C19_TraceNotInvoked ==
    \E p \in Procs :
        /\ pc[p] = "cc_hasAlreadyVerifiedDeployer"
        /\ req[p].rpcFailure = "traceTransaction"

\* C20: a restoring registration changes the appId and the state of the row it
\* restores and nothing else: the row keeps its id, entityId, chainId,
\* contractAddress, deployerAddress and deploymentTxHash, whatever deployment
\* transaction hash and deployer address the request names; every other row is
\* as before and no row is added.  The appId becomes the request's and the
\* state VERIFIED or NOT_VERIFIED.
C20_RestoreFrame ==
    [][\A p \in Procs :
          (/\ pc[p] = "cc_commit" /\ pc'[p] = "idle"
           /\ last'.status = 200 /\ last'.restored) =>
              LET i == last'.id
              IN  /\ i = loc[p].existingContract
                  /\ DOMAIN contracts' = DOMAIN contracts
                  /\ \A j \in DOMAIN contracts : j # i => contracts'[j] = contracts[j]
                  /\ \A f \in DOMAIN contracts[i] \ {"appId", "state"} :
                        contracts'[i][f] = contracts[i][f]
                  /\ contracts'[i].appId = req[p].appId
                  /\ contracts'[i].state \in {VERIFIED, NOT_VERIFIED}
      ]_vars

\* A registration naming deployment h3 by deployer D2 has restored the row
\* recorded with deployment h1 by deployer D1.
C20_Witness ==
    /\ last.op = "createContract" /\ last.status = 200 /\ last.restored
    /\ last.req.deploymentTxHash = "h3"
    /\ last.req.deployerAddress.a = "D2"
    /\ contracts[last.id].deploymentTxHash = "h1"
    /\ contracts[last.id].deployerAddress.a = "D1"
    /\ contracts[last.id].state # DELETED

\* C21: a contract in state VERIFIED never changes directly to NOT_VERIFIED; in
\* every step of every interleaving of the requests a VERIFIED row stays
\* VERIFIED or becomes DELETED.
C21_VerifiedOnlyToDeleted ==
    [][\A i \in DOMAIN contracts :
          contracts[i].state = VERIFIED =>
              contracts'[i].state \in {VERIFIED, DELETED}
      ]_vars

\* The case of two registrations restoring one DELETED row: the restore that
\* commits second, after the first has succeeded, does not move the row from
\* VERIFIED to NOT_VERIFIED.
C21_SecondRestoreKeepsVerified ==
    [][\A p \in Procs :
          (/\ pc[p] = "cc_commit" /\ pc'[p] = "idle"
           /\ last'.status = 200 /\ last'.restored /\ loc[p].overlapped) =>
              ~(/\ contracts[last'.id].state = VERIFIED
                /\ contracts'[last'.id].state = NOT_VERIFIED)
      ]_vars

\* A signature of the address was accepted by completeVerification for a
\* challenge of the entity: completeChallenge, called after verifyMessage has
\* passed and nowhere else, has left a challenge of that entity and address
\* COMPLETED, and challenges are never removed.
SignatureAccepted(entityId, address) ==
    \E c \in ChallengeIds :
        /\ challenges[c].entityId = entityId
        /\ challenges[c].state = COMPLETED
        /\ getAddress(challenges[c].address) = getAddress(address)

\* The tables are the ones named TrustSeed.
TrustSeedReached ==
    /\ contracts = TrustSeed.contracts
    /\ transactions = TrustSeed.transactions
    /\ challenges = TrustSeed.challenges

\* C22: in every reachable state a contract is VERIFIED only if a signature valid
\* for its stored deployerAddress has been accepted by completeVerification for
\* a challenge of the same entity.
C22_VerifiedBySignature ==
    \A i \in ContractIds :
        contracts[i].state = VERIFIED =>
            SignatureAccepted(contracts[i].entityId, contracts[i].deployerAddress)

\* completeVerification, called by the entity that owns challenge c with
\* signature g, accepts the signature: it passes every check before the
\* transaction.
Accepts(c, g) ==
    Precheck([op |-> "completeVerification", entityId |-> challenges[c].entityId,
              challengeId |-> c, signature |-> g]).status = 0

\* Two challenges that are not expired and are bound to the same address.
SameAddressUnexpired(c, d) ==
    /\ ReadChallenge(c).state # EXPIRED
    /\ ReadChallenge(d).state # EXPIRED
    /\ getAddress(challenges[c].address) = getAddress(challenges[d].address)

\* C23: whether completeVerification accepts a signature depends on the address
\* the challenge is bound to and on the signature only: in every reachable state
\* a signature is accepted for a challenge that is not expired exactly when it is
\* accepted for every other such challenge bound to the same address, whatever
\* the id, the contract and the owning entity of the two challenges.
C23_SameDecision ==
    \A c, d \in ChallengeIds :
        \A g \in Signatures :
            SameAddressUnexpired(c, d) => (Accepts(c, g) <=> Accepts(d, g))

\* A signature has just been accepted for a challenge while another entity
\* owns a challenge, not expired, that is bound to the same address.
C23_Witness ==
    /\ last.op = "completeVerification" /\ last.status = 200
    /\ last.req \in CompleteInputs
    /\ \E d \in ChallengeIds :
          /\ d # last.req.challengeId
          /\ SameAddressUnexpired(last.req.challengeId, d)
          /\ challenges[d].entityId # last.req.entityId
          /\ challenges[d].contractId # challenges[last.req.challengeId].contractId
          /\ Accepts(d, last.req.signature)

====
